---- MODULE Spec2Model ----
(***************************************************************************)
(* A model of SDSValidator (src/sds_validator.py): one validator object,   *)
(* its validate_all runs over an input directory of seven CSV files, the   *)
(* per-file cleaning pass, the accepted-identifier cache it keeps and the  *)
(* report it writes.                                                       *)
(*                                                                         *)
(* The input directory is read as the program reads it: the presence of    *)
(* the three required files is observed by _validate_file_existence, the   *)
(* presence and content of each file when the loop of validate_all comes   *)
(* to it.  dir records what the current run has observed.  The directory   *)
(* does not change while a run is in progress (the program is single-      *)
(* threaded and the model has no concurrent writer); between two runs it   *)
(* may change arbitrarily.                                                 *)
(*                                                                         *)
(* A row is the dict csv.DictReader yields: a function from the header's   *)
(* field names to strings, with the extra key NoneKey when the line holds  *)
(* more columns than the header.  Lines shorter than the header (DictReader*)
(* fills None, which every check of the program treats like '') are not    *)
(* drawn.  self.data_cache is written at line 149 and read nowhere; it is  *)
(* not a variable of the model.                                            *)
(***************************************************************************)
EXTENDS Integers, Sequences, FiniteSets, TLC

\* ------------------------------------------------------------------ bounds

\* What the environment may put before a validator is counted in units: a data
\* row, a header other than the canonical one and an I/O failure cost one unit
\* each, a surplus column in a row one more.
\* MaxUnits bounds a validator that runs once, over any subset of the files.
MaxUnits == 2
\* MaxReuseUnits bounds a validator that runs up to MaxRuns times, all runs
\* together; there a present file costs one unit as well.
MaxReuseUnits == 4
MaxRuns == 2
\* MaxLinkUnits bounds a validator that runs once over files whose rows all
\* carry the one identifier of LinkIds, so that rows of several files that
\* refer to one another fit in the budget.
MaxLinkUnits == 3

\* ------------------------------------------------------- files and schemas

\* Order with roles.csv moved before the files it refers to.
OrderRolesFirst ==
  << "roles.csv", "orgs.csv", "users.csv",
     "classes.csv", "enrollments.csv", "academicSessions.csv", "courses.csv" >>

Order ==
  << "orgs.csv", "users.csv", "roles.csv",
     "classes.csv", "enrollments.csv", "academicSessions.csv", "courses.csv" >>

Files == { Order[i] : i \in 1..Len(Order) }

RequiredFiles == << "orgs.csv", "users.csv", "roles.csv" >>

ToSet(s) == { s[i] : i \in 1..Len(s) }

\* The key DictReader files surplus columns under (restkey=None).
NoneKey == "<None>"

headers(f) ==
  CASE f = "orgs.csv" -> << "sourcedId", "name", "type", "parentSourcedId" >>
    [] f = "users.csv" ->
         << "sourcedId", "username", "givenName", "familyName", "password",
            "activeDirectoryMatchId", "email", "phone", "sms" >>
    [] f = "roles.csv" ->
         << "userSourcedId", "orgSourcedId", "role", "sessionSourcedId",
            "grade", "isPrimary", "roleStartDate", "roleEndDate" >>
    [] f = "classes.csv" ->
         << "sourcedId", "orgSourcedId", "title", "sessionSourcedIds",
            "courseSourcedId" >>
    [] f = "enrollments.csv" -> << "classSourcedId", "userSourcedId", "role" >>
    [] f = "academicSessions.csv" ->
         << "sourcedId", "title", "type", "startDate", "endDate",
            "parentSourcedId" >>
    [] f = "courses.csv" ->
         << "sourcedId", "orgSourcedId", "title", "courseCode", "grades" >>

V21Files == { "roles.csv", "enrollments.csv" }

sds_v21_headers(f) ==
  CASE f = "roles.csv" ->
         << "sourcedId", "userSourcedId", "orgSourcedId", "role",
            "sessionSourcedId" >>
    [] f = "enrollments.csv" ->
         << "sourcedId", "classSourcedId", "userSourcedId", "role" >>

required(f) ==
  CASE f = "orgs.csv" -> << "sourcedId", "name", "type" >>
    [] f = "users.csv" -> << "sourcedId", "username" >>
    [] f = "roles.csv" -> << "userSourcedId", "orgSourcedId", "role" >>
    [] f = "classes.csv" -> << "sourcedId", "orgSourcedId", "title" >>
    [] f = "enrollments.csv" -> << "classSourcedId", "userSourcedId", "role" >>
    [] f = "academicSessions.csv" ->
         << "sourcedId", "title", "type", "startDate", "endDate" >>
    [] f = "courses.csv" -> << "sourcedId", "orgSourcedId", "title" >>

sds_v21_required(f) ==
  CASE f = "roles.csv" ->
         << "sourcedId", "userSourcedId", "orgSourcedId", "role" >>
    [] f = "enrollments.csv" ->
         << "sourcedId", "classSourcedId", "userSourcedId", "role" >>

\* DupExempt with the exemption lost.
DupExemptNone == {}

\* Files exempt from the duplicate check (line 121).
DupExempt == { "roles.csv", "enrollments.csv" }

\* --------------------------------------------------------------- the inputs

Ids == { "a", "b" }
LinkIds == { "a" }
KeyVals == Ids \cup { "" }

GoodEmail == "u@x.org"
BadEmail == "invalid.email"
UpperEmail == "U@X.org"
GoodDate == "2023-04-01"
SlashDate == "2023/04/01"
GoodPhone == "+81312345678"
BadPhone == "12345"

OrgRows ==
  { [sourcedId |-> s, name |-> n, type |-> "school", parentSourcedId |-> ""] :
      s \in KeyVals, n \in { "", "n" } }

UserRows ==
  { [sourcedId |-> s, username |-> "u", givenName |-> "g", familyName |-> "f",
     password |-> "", activeDirectoryMatchId |-> "", email |-> e, phone |-> "",
     sms |-> ""] : s \in KeyVals, e \in { GoodEmail, BadEmail } }

RoleRows ==
  { [userSourcedId |-> u, orgSourcedId |-> o, role |-> "teacher",
     sessionSourcedId |-> "", grade |-> "", isPrimary |-> "",
     roleStartDate |-> d, roleEndDate |-> ""] :
      u \in KeyVals, o \in Ids, d \in { GoodDate, SlashDate } }

RoleRowsV21 ==
  { [sourcedId |-> s, userSourcedId |-> u, orgSourcedId |-> "a",
     role |-> "teacher", sessionSourcedId |-> ""] :
      s \in { "", "r" }, u \in Ids }

ClassRows ==
  { [sourcedId |-> s, orgSourcedId |-> "a", title |-> "t",
     sessionSourcedIds |-> "", courseSourcedId |-> ""] : s \in KeyVals }

EnrollmentRows ==
  { [classSourcedId |-> c, userSourcedId |-> u, role |-> "student"] :
      c \in KeyVals, u \in Ids }

EnrollmentRowsV21 ==
  { [sourcedId |-> s, classSourcedId |-> c, userSourcedId |-> "a",
     role |-> "student"] : s \in { "", "e" }, c \in Ids }

SessionRows ==
  { [sourcedId |-> s, title |-> "t", type |-> "term", startDate |-> d,
     endDate |-> GoodDate, parentSourcedId |-> ""] :
      s \in Ids, d \in { GoodDate, SlashDate } }

CourseRows ==
  { [sourcedId |-> s, orgSourcedId |-> "a", title |-> "t", courseCode |-> "",
     grades |-> ""] : s \in KeyVals }

\* A line with one column more than the header: DictReader files it under None.
Surplus(row) ==
  [k \in DOMAIN row \cup { NoneKey } |-> IF k = NoneKey THEN "x" ELSE row[k]]

PlainRows(f, alt) ==
  CASE f = "orgs.csv" -> OrgRows
    [] f = "users.csv" -> UserRows
    [] f = "roles.csv" -> IF alt THEN RoleRowsV21 ELSE RoleRows
    [] f = "classes.csv" -> ClassRows
    [] f = "enrollments.csv" -> IF alt THEN EnrollmentRowsV21 ELSE EnrollmentRows
    [] f = "academicSessions.csv" -> SessionRows
    [] f = "courses.csv" -> CourseRows

\* The header lines drawn for a file: its canonical header, its V2.1 header
\* and one that matches neither.
BadHeader == << "id", "name" >>

\* The data rows drawn under BadHeader.
BadHeaderRows == { [id |-> "a", name |-> "n"] }

HeaderLines(f) ==
  { headers(f), BadHeader }
    \cup (IF f \in V21Files THEN { sds_v21_headers(f) } ELSE {})

\* ------------------------------------------------------ the record checks

ValidationError(file, line, fld, message) ==
  [file |-> file, line |-> line, field |-> fld, message |-> message]

\* record.get(k): the value, or None (falsy, like '') when the key is missing.
Get(record, k) == IF k \in DOMAIN record THEN record[k] ELSE ""

\* email.utils.parseaddr on the addresses drawn here, which are bare addr-specs
\* with no display name: the address part is the string itself.
ParsedAddr(email) == email

HasAt(a) == a \in { GoodEmail, UpperEmail }

Lower(a) == IF a = UpperEmail THEN GoodEmail ELSE a

is_valid_email(email) ==
  LET a == ParsedAddr(email) IN a # "" /\ HasAt(a) /\ a = Lower(a)

\* phonenumbers.parse(phone, None) with is_valid_number: a number in
\* international form is valid, a bare digit string has no region and raises.
is_valid_phone(phone) == phone = GoodPhone

\* datetime.strptime(date_str, '%Y-%m-%d').
is_valid_date(date_str) == date_str = GoodDate

\* The errors of _validate_required_fields, in the order it appends them.
RECURSIVE RequiredErrors(_, _, _, _)
RequiredErrors(filename, record, line, flds) ==
  IF flds = << >> THEN << >>
  ELSE (IF Get(record, Head(flds)) = ""
        THEN << ValidationError(filename, line, Head(flds),
                                << "Required field missing", Head(flds) >>) >>
        ELSE << >>)
       \o RequiredErrors(filename, record, line, Tail(flds))

\* validate_required_fields with the V2.1 list applied to every row of
\* roles.csv and enrollments.csv.
validate_required_fields_v21(filename, record, line) ==
  RequiredErrors(filename, record, line,
                 IF filename \in V21Files THEN sds_v21_required(filename)
                 ELSE required(filename))

validate_required_fields(filename, record, line) ==
  LET req_fields ==
        IF filename \in V21Files /\ "sourcedId" \in DOMAIN record
        THEN sds_v21_required(filename)
        ELSE required(filename)
  IN RequiredErrors(filename, record, line, req_fields)

DateFields == << "startDate", "endDate", "roleStartDate", "roleEndDate" >>

RECURSIVE DateErrors(_, _, _, _)
DateErrors(filename, record, line, flds) ==
  IF flds = << >> THEN << >>
  ELSE LET dt == Head(flds) IN
       (IF dt \in DOMAIN record /\ record[dt] # "" /\ ~is_valid_date(record[dt])
        THEN << ValidationError(filename, line, dt,
                                << "Invalid date", record[dt] >>) >>
        ELSE << >>)
       \o DateErrors(filename, record, line, Tail(flds))

validate_data_types(filename, record, line) ==
  (IF "email" \in DOMAIN record /\ record["email"] # ""
      /\ ~is_valid_email(record["email"])
   THEN << ValidationError(filename, line, "email",
                           << "Invalid email", record["email"] >>) >>
   ELSE << >>)
  \o (IF "phone" \in DOMAIN record /\ record["phone"] # ""
         /\ ~is_valid_phone(record["phone"])
      THEN << ValidationError(filename, line, "phone",
                              << "Invalid phone", record["phone"] >>) >>
      ELSE << >>)
  \o DateErrors(filename, record, line, DateFields)
  \o (IF "enabledUser" \in DOMAIN record
         /\ record["enabledUser"] \notin { "true", "false" }
      THEN << ValidationError(filename, line, "enabledUser",
                              << "Invalid boolean", record["enabledUser"] >>) >>
      ELSE << >>)

\* RefError with an empty accepted set taken for a missing one.
RefErrorEmptyIsMissing(cache, filename, record, line, fld, target) ==
  IF target \in DOMAIN cache /\ cache[target] # {}
     /\ record[fld] \notin cache[target]
  THEN << ValidationError(filename, line, fld, << "Missing ref", record[fld] >>) >>
  ELSE << >>

\* One reference check of _validate_cross_reference: skipped when the cache
\* holds no set for the referenced file.
RefError(cache, filename, record, line, fld, target) ==
  IF target \in DOMAIN cache /\ record[fld] \notin cache[target]
  THEN << ValidationError(filename, line, fld, << "Missing ref", record[fld] >>) >>
  ELSE << >>

\* validate_cross_reference that also checks the orgSourcedId of classes.csv.
validate_cross_reference_classes(cache, filename, record, line) ==
  (IF filename = "roles.csv"
   THEN RefError(cache, filename, record, line, "userSourcedId", "users.csv")
        \o RefError(cache, filename, record, line, "orgSourcedId", "orgs.csv")
   ELSE << >>)
  \o (IF filename = "enrollments.csv"
      THEN RefError(cache, filename, record, line, "userSourcedId", "users.csv")
           \o RefError(cache, filename, record, line, "classSourcedId",
                       "classes.csv")
      ELSE << >>)
  \o (IF filename = "classes.csv"
      THEN RefError(cache, filename, record, line, "orgSourcedId", "orgs.csv")
      ELSE << >>)

validate_cross_reference(cache, filename, record, line) ==
  (IF filename = "roles.csv"
   THEN RefError(cache, filename, record, line, "userSourcedId", "users.csv")
        \o RefError(cache, filename, record, line, "orgSourcedId", "orgs.csv")
   ELSE << >>)
  \o (IF filename = "enrollments.csv"
      THEN RefError(cache, filename, record, line, "userSourcedId", "users.csv")
           \o RefError(cache, filename, record, line, "classSourcedId",
                       "classes.csv")
      ELSE << >>)

\* validate_record with the reference check made first.
validate_record_refs_first(cache, filename, record, line) ==
  validate_cross_reference(cache, filename, record, line)
    \o validate_required_fields(filename, record, line)
    \o validate_data_types(filename, record, line)

\* validate_record that stops at the first check that fails.
validate_record_short_circuit(cache, filename, record, line) ==
  IF validate_required_fields(filename, record, line) # << >>
  THEN validate_required_fields(filename, record, line)
  ELSE IF validate_data_types(filename, record, line) # << >>
  THEN validate_data_types(filename, record, line)
  ELSE validate_cross_reference(cache, filename, record, line)

\* _validate_record: the three checks in turn, none skipped; the record is ok
\* exactly when none of them appended an error.
validate_record(cache, filename, record, line) ==
  validate_required_fields(filename, record, line)
    \o validate_data_types(filename, record, line)
    \o validate_cross_reference(cache, filename, record, line)

\* row.get('sourcedId') or row.get('classSourcedId') or ''
IdentityKey(row) ==
  IF Get(row, "sourcedId") # "" THEN Get(row, "sourcedId")
  ELSE IF Get(row, "classSourcedId") # "" THEN Get(row, "classSourcedId")
  ELSE ""

\* IsDuplicate with the duplicate check lost.
IsDuplicateNever(filename, sid, seen) == FALSE

IsDuplicate(filename, sid, seen) == filename \notin DupExempt /\ sid \in seen

\* RowLoop that registers the key of every row, rejected ones included.
RECURSIVE RowLoopSeesRejected(_, _, _, _, _)
RowLoopSeesRejected(cache, filename, rows, i, acc) ==
  IF i > Len(rows) THEN acc
  ELSE
    LET row == rows[i]
        sid == IdentityKey(row)
        errs == validate_record(cache, filename, row, i + 1)
    IN IF IsDuplicate(filename, sid, acc.seen)
       THEN RowLoopSeesRejected(cache, filename, rows, i + 1,
              [acc EXCEPT
                 !.errs = Append(@, ValidationError(filename, i + 1, "sourcedId",
                                      << "Duplicate sourcedId", sid >>)),
                 !.removed = Append(@, row)])
       ELSE IF errs = << >>
       THEN RowLoopSeesRejected(cache, filename, rows, i + 1,
              [acc EXCEPT !.cleaned = Append(@, row), !.seen = @ \cup { sid }])
       ELSE RowLoopSeesRejected(cache, filename, rows, i + 1,
              [acc EXCEPT !.errs = @ \o errs, !.removed = Append(@, row),
                          !.seen = @ \cup { sid }])

\* RowLoop that leaves the loop at the first rejected row.
RECURSIVE RowLoopStops(_, _, _, _, _)
RowLoopStops(cache, filename, rows, i, acc) ==
  IF i > Len(rows) THEN acc
  ELSE
    LET row == rows[i]
        errs == validate_record(cache, filename, row, i + 1)
    IN IF IsDuplicate(filename, IdentityKey(row), acc.seen)
       THEN [acc EXCEPT
               !.errs = Append(@, ValidationError(filename, i + 1, "sourcedId",
                                    << "Duplicate sourcedId", IdentityKey(row) >>)),
               !.removed = Append(@, row)]
       ELSE IF errs = << >>
       THEN RowLoopStops(cache, filename, rows, i + 1,
              [acc EXCEPT !.cleaned = Append(@, row),
                          !.seen = @ \cup { IdentityKey(row) }])
       ELSE [acc EXCEPT !.errs = @ \o errs, !.removed = Append(@, row)]

\* The row loop of _validate_and_fix_file from row i on; acc holds cleaned,
\* seen, removed and the errors appended so far.
RECURSIVE RowLoop(_, _, _, _, _)
RowLoop(cache, filename, rows, i, acc) ==
  IF i > Len(rows) THEN acc
  ELSE
    LET row == rows[i]
        idx == i + 1
        sid == IdentityKey(row)
        errs == validate_record(cache, filename, row, idx)
    IN IF IsDuplicate(filename, sid, acc.seen)
       THEN RowLoop(cache, filename, rows, i + 1,
              [acc EXCEPT
                 !.errs = Append(@, ValidationError(filename, idx, "sourcedId",
                                      << "Duplicate sourcedId", sid >>)),
                 !.removed = Append(@, row)])
       ELSE IF errs = << >>
       THEN RowLoop(cache, filename, rows, i + 1,
              [acc EXCEPT !.cleaned = Append(@, row), !.seen = @ \cup { sid }])
       ELSE RowLoop(cache, filename, rows, i + 1,
              [acc EXCEPT !.errs = @ \o errs, !.removed = Append(@, row)])

CleanFile(cache, filename, rows) ==
  RowLoop(cache, filename, rows, 1,
          [cleaned |-> << >>, seen |-> {}, removed |-> << >>, errs |-> << >>])

\* header_valid with the comparison lost.
header_valid_always(filename, actual) == TRUE

header_valid(filename, actual) ==
  \/ ToSet(actual) = ToSet(headers(filename))
  \/ filename \in V21Files /\ ToSet(actual) = ToSet(sds_v21_headers(filename))

\* output_headers that always writes the canonical header.
output_headers_canonical(filename, actual) == headers(filename)

output_headers(filename, actual) ==
  IF filename \in V21Files /\ ToSet(actual) = ToSet(sds_v21_headers(filename))
  THEN sds_v21_headers(filename)
  ELSE headers(filename)

\* csv.DictWriter.writerows(cleaned) with extrasaction='raise': the rows are
\* written one by one and the first whose keys are not all fieldnames raises
\* ValueError, the rows before it being in the file already.
RECURSIVE WritablePrefix(_, _)
WritablePrefix(fieldnames, cleaned) ==
  IF cleaned = << >> \/ ~(DOMAIN Head(cleaned) \subseteq ToSet(fieldnames))
  THEN << >>
  ELSE << Head(cleaned) >> \o WritablePrefix(fieldnames, Tail(cleaned))

\* ------------------------------------------------------------------- state

VARIABLES
  pc,               \* where the caller and validate_all stand:
                    \*   "idle" (constructed), "loop" (the file loop, line 45),
                    \*   "report" (line 50), "returned", "raised"
  idx,              \* the position in Order of the next file of the loop
  errors,           \* self.errors
  removed_records,  \* self.removed_records: file -> rows, no key when empty
  sourcedid_cache,  \* self.sourcedid_cache: file -> set of identity keys
  out_exists,       \* whether the directory validated_output exists
  out_files,        \* the files in validated_output: file -> rows written
  out_headers,      \* the header line of each file in validated_output
  report,           \* validation_report.json: << >> when there is none
  dir,              \* the input directory as this run has observed it
  published,        \* the files whose set line 150 stored in this run
  prev,             \* what the run before this one read and produced, when
                    \* it returned: << >> when there is none
  row_ids,          \* the identifiers the rows of the input files carry
  runs_left,        \* validate_all calls the caller may still make
  units,            \* units the environment may still spend
  file_cost         \* units a present file costs (0 or 1)

vars ==
  << pc, idx, errors, removed_records, sourcedid_cache, out_exists, out_files,
     out_headers, report, dir, published, prev, row_ids, runs_left, units,
     file_cost >>

EmptyMap == [x \in {} |-> {}]

Put(map, k, v) == [x \in DOMAIN map \cup { k } |-> IF x = k THEN v ELSE map[x]]

Unseen == [exists |-> "?", actual |-> << >>, rows |-> << >>, io |-> "?"]
Absent == [exists |-> "no", actual |-> << >>, rows |-> << >>, io |-> "?"]
Present == [exists |-> "yes", actual |-> << >>, rows |-> << >>, io |-> "?"]

Init ==
  /\ pc = "idle"
  /\ idx = 1
  /\ errors = << >>
  /\ removed_records = EmptyMap
  /\ sourcedid_cache = EmptyMap
  /\ out_exists = FALSE
  /\ out_files = EmptyMap
  /\ out_headers = EmptyMap
  /\ report = << >>
  /\ dir = [f \in Files |-> Unseen]
  /\ published = {}
  /\ prev = << >>
  /\ \/ runs_left = 1 /\ units = MaxUnits /\ file_cost = 0 /\ row_ids = Ids
     \/ runs_left = MaxRuns /\ units = MaxReuseUnits /\ file_cost = 1
        /\ row_ids = Ids

\* A validator that runs once over files whose rows carry one identifier.
InitLinked ==
  /\ pc = "idle"
  /\ idx = 1
  /\ errors = << >>
  /\ removed_records = EmptyMap
  /\ sourcedid_cache = EmptyMap
  /\ out_exists = FALSE
  /\ out_files = EmptyMap
  /\ out_headers = EmptyMap
  /\ report = << >>
  /\ dir = [f \in Files |-> Unseen]
  /\ published = {}
  /\ prev = << >>
  /\ runs_left = 1 /\ units = MaxLinkUnits /\ file_cost = 0 /\ row_ids = LinkIds

\* ------------------------------------------------------------ validate_all

\* MissingErrors that stops at the first missing file.
RECURSIVE MissingErrorsFirstOnly(_, _)
MissingErrorsFirstOnly(present, i) ==
  IF i > Len(RequiredFiles) THEN << >>
  ELSE IF RequiredFiles[i] \in present
  THEN MissingErrorsFirstOnly(present, i + 1)
  ELSE << ValidationError(RequiredFiles[i], 0, "",
                          << "Required file not found", RequiredFiles[i] >>) >>

\* _validate_file_existence over the required files from position i on.
RECURSIVE MissingErrors(_, _)
MissingErrors(present, i) ==
  IF i > Len(RequiredFiles) THEN << >>
  ELSE (IF RequiredFiles[i] \in present THEN << >>
        ELSE << ValidationError(RequiredFiles[i], 0, "",
                                << "Required file not found", RequiredFiles[i] >>) >>)
       \o MissingErrors(present, i + 1)

\* Lines 31-40: the state reset, the reset of the output directory and the
\* existence check.  how says where the reset of the output directory fails,
\* if it does; present is the set of required files that exist.
ValidateAllBegin ==
  /\ pc \in { "idle", "returned", "raised" }
  /\ runs_left > 0
  /\ runs_left' = runs_left - 1
  /\ published' = {}
  /\ prev' = IF pc = "returned"
              THEN << [dir |-> dir, errors |-> errors,
                       removed_records |-> removed_records,
                       out_files |-> out_files, out_headers |-> out_headers,
                       report |-> report] >>
              ELSE << >>
  /\ idx' = 1
  /\ removed_records' = EmptyMap
  /\ UNCHANGED << sourcedid_cache, report, row_ids, file_cost >>
  /\ \E how \in { "ok", "rmtree", "makedirs" } :
       \/ /\ how = "rmtree"
          /\ out_exists /\ units >= 1
          /\ units' = units - 1
          /\ errors' = << >>
          /\ dir' = [f \in Files |-> Unseen]
          /\ pc' = "raised"
          /\ UNCHANGED << out_exists, out_files, out_headers >>
       \/ /\ how = "makedirs"
          /\ units >= 1
          /\ units' = units - 1
          /\ errors' = << >>
          /\ dir' = [f \in Files |-> Unseen]
          /\ out_exists' = FALSE
          /\ out_files' = EmptyMap
          /\ out_headers' = EmptyMap
          /\ pc' = "raised"
       \/ /\ how = "ok"
          /\ out_exists' = TRUE
          /\ out_files' = EmptyMap
          /\ out_headers' = EmptyMap
          /\ \E present \in SUBSET ToSet(RequiredFiles) :
               /\ units >= file_cost * Cardinality(present)
               /\ units' = units - file_cost * Cardinality(present)
               /\ dir' = [f \in Files |->
                            IF f \in present THEN Present
                            ELSE IF f \in ToSet(RequiredFiles) THEN Absent
                            ELSE Unseen]
               /\ errors' = MissingErrors(present, 1)
          /\ pc' = "loop"

\* What a present file may hold, for at most u units: the header line, the
\* data rows and the I/O failure met while the file is processed ("open": the
\* file cannot be opened or its header not read; "rows": the rows cannot be
\* read; "write": the clean copy cannot be opened for writing).
RowChoices(f, actual) ==
  { r \in PlainRows(f, ToSet(actual) = ToSet(sds_v21_headers(f))
                        /\ f \in V21Files) :
      \A k \in DOMAIN r : r[k] \in Ids => r[k] \in row_ids }

RowCost(row) == IF NoneKey \in DOMAIN row THEN 2 ELSE 1

RECURSIVE RowsCost(_)
RowsCost(rows) ==
  IF rows = << >> THEN 0 ELSE RowCost(Head(rows)) + RowsCost(Tail(rows))

RowSeqs(f, actual, u) ==
  LET plain == RowChoices(f, actual)
      all == plain \cup { Surplus(r) : r \in plain }
  IN { rows \in UNION { [1..n -> all] : n \in 0..u } : RowsCost(rows) <= u }

\* The units a header line costs: the canonical header is free.
HeaderCost(f, actual) == IF actual = headers(f) THEN 0 ELSE 1

MatchingLines(f, u) ==
  { h \in HeaderLines(f) \ { BadHeader } : HeaderCost(f, h) <= u }

Contents(f, u) ==
  UNION { { [actual |-> h, rows |-> rows, io |-> "ok"] :
              rows \in RowSeqs(f, h, u - HeaderCost(f, h)) } :
          h \in MatchingLines(f, u) }
  \cup (IF u = 0 THEN {}
        ELSE { [actual |-> << >>, rows |-> << >>, io |-> "open"],
               [actual |-> BadHeader, rows |-> << >>, io |-> "ok"] }
             \cup (IF u = 1 THEN {}
                   ELSE { [actual |-> BadHeader, rows |-> << r >>, io |-> "ok"] :
                            r \in BadHeaderRows })
             \cup UNION { { [actual |-> h, rows |-> rows, io |-> io] :
                              rows \in RowSeqs(f, h, u - 1 - HeaderCost(f, h)),
                              io \in { "rows", "write" } } :
                          h \in MatchingLines(f, u - 1) })

\* The units a file's content costs.
ContentCost(f, c) ==
  RowsCost(c.rows)
    + (IF c.io = "open" THEN 1 ELSE HeaderCost(f, c.actual))
    + (IF c.io \in { "rows", "write" } THEN 1 ELSE 0)

IOError(filename) == ValidationError(filename, 0, "", << "Exception", "" >>)

HeaderError(filename) ==
  ValidationError(filename, 1, "header", << "Invalid header", "" >>)

\* OnException with the exception swallowed and nothing recorded.
OnExceptionSilent(st, filename) == st

\* Lines 152-153: the except clause of _validate_and_fix_file.
OnException(st, filename) ==
  [st EXCEPT !.errors = Append(@, IOError(filename))]

\* validate_and_fix_file that stores the accepted-identifier set before it
\* writes the clean copy.
validate_and_fix_file_publish_first(st, filename, c) ==
  LET res == CleanFile(st.sourcedid_cache, filename, c.rows)
      pass == [st EXCEPT
                 !.errors = @ \o res.errs,
                 !.removed_records =
                    IF res.removed # << >> THEN Put(@, filename, res.removed) ELSE @,
                 !.sourcedid_cache = Put(@, filename, res.seen),
                 !.published = @ \cup { filename }]
      fieldnames == output_headers(filename, c.actual)
      written == WritablePrefix(fieldnames, res.cleaned)
  IN IF c.io = "open"
     THEN OnException(st, filename)
     ELSE IF ~header_valid(filename, c.actual)
     THEN [st EXCEPT !.errors = Append(@, HeaderError(filename))]
     ELSE IF c.io = "rows"
     THEN OnException(st, filename)
     ELSE IF c.io = "write"
     THEN OnException(pass, filename)
     ELSE IF written # res.cleaned
     THEN OnException([pass EXCEPT !.out_files = Put(@, filename, written),
                                   !.out_headers = Put(@, filename, fieldnames)],
                      filename)
     ELSE [pass EXCEPT !.out_files = Put(@, filename, res.cleaned),
                       !.out_headers = Put(@, filename, fieldnames)]

\* _validate_and_fix_file(filename) on a file holding c, from the validator
\* fields st (errors, removed_records, sourcedid_cache, out_files,
\* out_headers, published):
\* the fields after the call.
validate_and_fix_file(st, filename, c) ==
  LET res == CleanFile(st.sourcedid_cache, filename, c.rows)
      pass == [st EXCEPT
                 !.errors = @ \o res.errs,
                 !.removed_records =
                    IF res.removed # << >> THEN Put(@, filename, res.removed) ELSE @]
      fieldnames == output_headers(filename, c.actual)
      written == WritablePrefix(fieldnames, res.cleaned)
  IN IF c.io = "open"
     THEN OnException(st, filename)
     ELSE IF ~header_valid(filename, c.actual)
     THEN [st EXCEPT !.errors = Append(@, HeaderError(filename))]
     ELSE IF c.io = "rows"
     THEN OnException(st, filename)
     ELSE IF c.io = "write"
     THEN OnException(pass, filename)
     ELSE IF written # res.cleaned
     THEN OnException([pass EXCEPT !.out_files = Put(@, filename, written),
                                   !.out_headers = Put(@, filename, fieldnames)],
                      filename)
     ELSE [pass EXCEPT !.out_files = Put(@, filename, res.cleaned),
                       !.out_headers = Put(@, filename, fieldnames),
                       !.sourcedid_cache = Put(@, filename, res.seen),
                       !.published = @ \cup { filename }]

\* The validator fields _validate_and_fix_file works on.
Fields ==
  [errors |-> errors, removed_records |-> removed_records,
   sourcedid_cache |-> sourcedid_cache, out_files |-> out_files,
   out_headers |-> out_headers, published |-> published]

\* Lines 45-48, one iteration of the loop: the file is looked for and, when it
\* exists, validated and cleaned.
ProcessFile ==
  /\ pc = "loop"
  /\ LET fname == Order[idx] IN
       \E there \in BOOLEAN :
         /\ dir[fname].exists # "?" => there = (dir[fname].exists = "yes")
         /\ IF ~there
            THEN /\ dir' = [dir EXCEPT ![fname] = Absent]
                 /\ UNCHANGED << errors, removed_records, sourcedid_cache,
                                 out_files, out_headers, published, units >>
            ELSE LET paid == IF dir[fname].exists = "?" THEN file_cost ELSE 0 IN
                 /\ units >= paid
                 /\ \E c \in Contents(fname, units - paid) :
                      LET after == validate_and_fix_file(Fields, fname, c)
                          spent == ContentCost(fname, c)
                      IN /\ dir' = [dir EXCEPT ![fname] =
                                      [exists |-> "yes", actual |-> c.actual,
                                       rows |-> c.rows, io |-> c.io]]
                         /\ units' = units - paid - spent
                         /\ errors' = after.errors
                         /\ removed_records' = after.removed_records
                         /\ sourcedid_cache' = after.sourcedid_cache
                         /\ out_files' = after.out_files
                         /\ out_headers' = after.out_headers
                         /\ published' = after.published
  /\ idx' = idx + 1
  /\ pc' = IF idx = Len(Order) THEN "report" ELSE "loop"
  /\ UNCHANGED << out_exists, report, prev, row_ids, runs_left, file_cost >>

\* WriteReport with hasErrors taken from the removed-record log.
WriteReportFlagFromRemoved ==
  /\ pc = "report"
  /\ report' = << [hasErrors |-> removed_records # EmptyMap,
                   errors |-> errors,
                   removedRecords |-> removed_records] >>
  /\ pc' = "returned"
  /\ UNCHANGED << idx, errors, removed_records, sourcedid_cache, out_exists,
                  out_files, out_headers, dir, published, prev, row_ids,
                  runs_left, units, file_cost >>

\* Lines 50-59: the report is built and written, and validate_all returns;
\* when the report file cannot be opened for writing the exception leaves
\* validate_all and the file is as it was.
WriteReport ==
  /\ pc = "report"
  /\ \E failed \in BOOLEAN :
       IF failed
       THEN /\ units >= 1
            /\ units' = units - 1
            /\ pc' = "raised"
            /\ UNCHANGED report
       ELSE /\ report' = << [hasErrors |-> Len(errors) > 0,
                             errors |-> errors,
                             removedRecords |-> removed_records] >>
            /\ pc' = "returned"
            /\ UNCHANGED units
  /\ UNCHANGED << idx, errors, removed_records, sourcedid_cache, out_exists,
                  out_files, out_headers, dir, published, prev, row_ids,
                  runs_left, file_cost >>

\* Lines 257-263: the exit status main passes to sys.exit, given the error
\* list validate_all returned.
main(errs) == IF errs # << >> THEN 1 ELSE 0

Next == ValidateAllBegin \/ ProcessFile \/ WriteReport

Spec == Init /\ [][Next]_vars

SpecLinked == InitLinked /\ [][Next]_vars

\* ----------------------------------------------- what a run has observed

\* _validate_and_fix_file was called for f in this run.
Processed(f) == dir[f].exists = "yes" /\ dir[f].io # "?"

\* The header line of f, as read in this run, has the field set of the
\* canonical header of f or, for roles.csv and enrollments.csv, of the V2.1 one.
HeaderMatches(f) ==
  /\ Processed(f)
  /\ dir[f].io # "open"
  /\ \/ ToSet(dir[f].actual) = ToSet(headers(f))
     \/ f \in V21Files /\ ToSet(dir[f].actual) = ToSet(sds_v21_headers(f))

\* The rows of f were read and went through the row loop in this run.
RowsValidated(f) == HeaderMatches(f) /\ dir[f].io \in { "ok", "write" }

\* The header of f was read in this run and matches no expected header.
HeaderMismatched(f) ==
  Processed(f) /\ dir[f].io # "open" /\ ~HeaderMatches(f)

\* The loop of validate_all has gone through all seven files in this run.
LoopDone ==
  \/ pc \in { "report", "returned" }
  \/ pc = "raised" /\ idx = Len(Order) + 1

Position(f) == CHOOSE i \in 1..Len(Order) : Order[i] = f

ErrorsAt(f, line) ==
  { i \in 1..Len(errors) : errors[i].file = f /\ errors[i].line = line }

ErrorsOf(f) == { i \in 1..Len(errors) : errors[i].file = f }

Kind(i) == errors[i].message[1]

MissingRefAt(f, line, fld) ==
  \E i \in ErrorsAt(f, line) : errors[i].field = fld /\ Kind(i) = "Missing ref"

\* The files a roles.csv or enrollments.csv row refers to, by field.
RefFields(f) ==
  CASE f = "roles.csv" ->
         { << "userSourcedId", "users.csv" >>, << "orgSourcedId", "orgs.csv" >> }
    [] f = "enrollments.csv" ->
         { << "userSourcedId", "users.csv" >>, << "classSourcedId", "classes.csv" >> }
    [] OTHER -> {}

\* The sourcedId values of the rows users.csv holds in this run.
SourcedIdsOf(f) ==
  IF RowsValidated(f) \/ (Processed(f) /\ dir[f].io = "rows")
  THEN { Get(dir[f].rows[i], "sourcedId") : i \in 1..Len(dir[f].rows) }
  ELSE {}

\* ------------------------------------------------------------------ claims

CleanLines(f) ==
  { i \in 1..Len(dir[f].rows) : RowsValidated(f) /\ ErrorsAt(f, i + 1) = {} }

InCleanCopy(f, row) ==
  f \in DOMAIN out_files /\ \E k \in 1..Len(out_files[f]) : out_files[f][k] = row

\* C2 as stated: when a run has returned, every identifier in
\* sourcedid_cache[file] is the identity key of a row of that file that raised
\* no error and is in the file's clean copy; so that, users.csv having an
\* accepted-identifier set, a roles.csv or enrollments.csv row whose
\* userSourcedId is the identity key of no users.csv row free of errors has a
\* 'Missing ref' error.
C2_CacheHoldsOnlyAcceptedRows ==
  pc = "returned" =>
    /\ \A f \in DOMAIN sourcedid_cache : \A id \in sourcedid_cache[f] :
         \E i \in CleanLines(f) :
           /\ IdentityKey(dir[f].rows[i]) = id
           /\ InCleanCopy(f, dir[f].rows[i])
    /\ \A f \in { "roles.csv", "enrollments.csv" } :
         (/\ RowsValidated(f)
          /\ RowsValidated("users.csv")
          /\ "users.csv" \in DOMAIN sourcedid_cache)
           => \A i \in 1..Len(dir[f].rows) :
                (\A j \in CleanLines("users.csv") :
                    IdentityKey(dir["users.csv"].rows[j])
                      # dir[f].rows[i]["userSourcedId"])
                  => MissingRefAt(f, i + 1, "userSourcedId")

\* The validator is in its first validate_all run.
InFirstRun ==
  /\ pc # "idle"
  /\ runs_left = (IF file_cost = 0 THEN 1 ELSE MaxRuns) - 1

\* Not a claim's formula: what C2 says holds in the first run of a validator,
\* where every set in the cache is one the run stored itself.
FirstRunCacheHoldsOnlyAcceptedRows == InFirstRun => C2_CacheHoldsOnlyAcceptedRows

\* The DuplicateSourcedId errors of file f for identifier id.
DuplicateErrors(f, id) ==
  { i \in ErrorsOf(f) : Kind(i) = "Duplicate sourcedId" /\ errors[i].message[2] = id }

CopiesInCleanCopy(f, id) ==
  { k \in 1..Len(out_files[f]) : Get(out_files[f][k], "sourcedId") = id }

UniqueFiles == Files \ DupExempt

\* C3 as stated: in a uniqueness-enforcing file whose rows were validated, two
\* rows sharing a (non-empty) sourcedId give exactly one DuplicateSourcedId error for it,
\* at the line of the later row, and the clean copy holds exactly one row with
\* that sourcedId, the earlier one.
C3_TwoRowsOneDuplicateError ==
  \A f \in UniqueFiles :
    RowsValidated(f) =>
      \A i, j \in 1..Len(dir[f].rows) :
        (/\ i < j
         /\ dir[f].rows[i]["sourcedId"] \in Ids
         /\ dir[f].rows[i]["sourcedId"] = dir[f].rows[j]["sourcedId"]) =>
          LET id == dir[f].rows[i]["sourcedId"] IN
          /\ Cardinality(DuplicateErrors(f, id)) = 1
          /\ \A e \in DuplicateErrors(f, id) : errors[e].line = j + 1
          /\ f \in published =>
               /\ Cardinality(CopiesInCleanCopy(f, id)) = 1
               /\ InCleanCopy(f, dir[f].rows[i])

\* C3 amended: in a uniqueness-enforcing file whose rows were validated, every
\* row that shares its sourcedId with an earlier row that raised no error gets
\* exactly one error, a DuplicateSourcedId for that identifier at its own line,
\* and is logged as removed; when the clean copy is published it holds exactly
\* one row with that sourcedId, the first row that raised no error.
C3_DuplicateOfAcceptedRow ==
  \A f \in UniqueFiles :
    RowsValidated(f) =>
      \A j \in 1..Len(dir[f].rows) :
        LET id == dir[f].rows[j]["sourcedId"]
            firsts == { i \in CleanLines(f) :
                          i < j /\ dir[f].rows[i]["sourcedId"] = id }
        IN firsts # {} =>
             /\ Cardinality(ErrorsAt(f, j + 1)) = 1
             /\ \A e \in ErrorsAt(f, j + 1) :
                  /\ Kind(e) = "Duplicate sourcedId"
                  /\ errors[e].field = "sourcedId"
                  /\ errors[e].message[2] = id
             /\ f \in DOMAIN removed_records
             /\ \E k \in 1..Len(removed_records[f]) :
                  removed_records[f][k] = dir[f].rows[j]
             /\ f \in published =>
                  /\ Cardinality(CopiesInCleanCopy(f, id)) = 1
                  /\ Cardinality(firsts) = 1
                  /\ \A i \in firsts : InCleanCopy(f, dir[f].rows[i])

\* C3 witness: a published uniqueness-enforcing file with a row accepted and a
\* later row of the same sourcedId reported as its duplicate.
C3_Witness ==
  \E f \in UniqueFiles :
    /\ f \in published
    /\ \E i, j \in 1..Len(dir[f].rows) :
         /\ i < j
         /\ i \in CleanLines(f)
         /\ dir[f].rows[i]["sourcedId"] = dir[f].rows[j]["sourcedId"]
         /\ DuplicateErrors(f, dir[f].rows[i]["sourcedId"]) # {}

\* The validator fields after the file loop has gone through the files of
\* directory d from position i on, starting from the fields st.
RECURSIVE RunFrom(_, _, _)
RunFrom(st, d, i) ==
  IF i > Len(Order) THEN st
  ELSE IF d[Order[i]].exists = "yes"
  THEN RunFrom(validate_and_fix_file(st, Order[i], d[Order[i]]), d, i + 1)
  ELSE RunFrom(st, d, i + 1)

\* The fields a validator fresh from its constructor has after a run on d.
FreshRun(d) ==
  RunFrom([errors |->
             MissingErrors({ f \in ToSet(RequiredFiles) : d[f].exists = "yes" }, 1),
           removed_records |-> EmptyMap,
           sourcedid_cache |-> EmptyMap,
           out_files |-> EmptyMap,
           out_headers |-> EmptyMap,
           published |-> {}],
          d, 1)

\* The file a 'Missing ref' error of file f for field fld was checked against.
TargetOf(f, fld) == CHOOSE t \in Files : << fld, t >> \in RefFields(f)

\* C4 as stated: the errors, the removed-record log and the clean copies of a
\* run that has returned are those a fresh validator produces on the same
\* directory, and every 'Missing ref' error was checked against a file that
\* published its set in this run.
C4_RunsDoNotInterfere ==
  pc = "returned" =>
    /\ errors = FreshRun(dir).errors
    /\ removed_records = FreshRun(dir).removed_records
    /\ out_files = FreshRun(dir).out_files
    /\ \A i \in 1..Len(errors) :
         Kind(i) = "Missing ref"
           => TargetOf(errors[i].file, errors[i].field) \in published

\* Not a claim's formula: the first run of a validator is as C4 says.
FirstRunIsFresh == InFirstRun => C4_RunsDoNotInterfere

\* The rows of f with at least one error at their line.
FaultyLines(f) == { i \in 1..Len(dir[f].rows) : ErrorsAt(f, i + 1) # {} }

\* C5 as stated: when a file that roles.csv or enrollments.csv refers to
\* published no accepted-identifier set in this run, no 'Missing ref' error is
\* raised for the field referring to it, and only rows with an error of their
\* own are removed.
C5_UnpublishedTargetIsSkipped ==
  \A f \in { "roles.csv", "enrollments.csv" } :
    RowsValidated(f) =>
      /\ \A ft \in RefFields(f) :
           ft[2] \notin published =>
             \A i \in ErrorsOf(f) :
               ~(errors[i].field = ft[1] /\ Kind(i) = "Missing ref")
      /\ Len(IF f \in DOMAIN removed_records THEN removed_records[f] ELSE << >>)
           = Cardinality(FaultyLines(f))

\* Not a claim's formula: the first run of a validator is as C5 says.
FirstRunSkipsUnpublishedTarget == InFirstRun => C5_UnpublishedTargetIsSkipped

\* The processing of g is over in this run: g was found absent, or
\* _validate_and_fix_file(g) has returned.
Finished(g) == dir[g].exists = "no" \/ Processed(g)

\* _validate_and_fix_file(g) met neither a header mismatch nor an exception.
Succeeded(g) ==
  Processed(g)
    /\ \A i \in ErrorsOf(g) : errors[i].line \notin { 0, 1 }

\* C6: while the loop runs, the files before the loop position, and no others,
\* have been dealt with, in the order orgs, users, roles, classes, enrollments,
\* academicSessions, courses; so whenever roles.csv or enrollments.csv is the
\* file to process next, or has been processed, every file it refers to is
\* finished and, if it succeeded, its accepted-identifier set is in the cache,
\* stored in this run.
C6_TargetsProcessedFirst ==
  LET claimed == << "orgs.csv", "users.csv", "roles.csv", "classes.csv",
                    "enrollments.csv", "academicSessions.csv", "courses.csv" >>
  IN
  /\ pc = "loop" =>
       /\ idx \in 1..Len(claimed)
       /\ \A k \in 1..Len(claimed) :
            /\ k < idx => Finished(claimed[k])
            /\ k >= idx => ~Processed(claimed[k])
  /\ \A f \in { "roles.csv", "enrollments.csv" } :
       ((pc = "loop" /\ claimed[idx] = f) \/ Processed(f)) =>
         \A ft \in RefFields(f) :
           /\ Finished(ft[2])
           /\ Succeeded(ft[2]) =>
                ft[2] \in published /\ ft[2] \in DOMAIN sourcedid_cache

\* C6 witness: enrollments.csv is next, and users.csv and classes.csv have
\* both published their sets in this run.
C6_Witness ==
  /\ pc = "loop"
  /\ idx = 5
  /\ dir["enrollments.csv"].io = "?"
  /\ { "users.csv", "classes.csv" } \subseteq published
  /\ sourcedid_cache["users.csv"] # {}

\* C7 as stated: validate_all never raises to its caller.
C7_ValidateAllNeverRaises == pc # "raised"

\* An exception left the try block of _validate_and_fix_file(f) in this run:
\* the file or its rows could not be read, or its clean copy not written.
IOFailed(f) ==
  /\ Processed(f)
  /\ \/ dir[f].io \in { "open", "rows", "write" }
     \/ RowsValidated(f) /\ f \notin published

\* C8: a file whose reading or writing raised has exactly one error with its
\* name and line 0; the run was not aborted by it, validate_all raising only
\* out of the report step; once the loop is over every file after it that
\* exists has been processed, and when validate_all has returned the report
\* holds the errors of this run.
C8_FileFailureDoesNotAbort ==
  \A f \in Files :
    IOFailed(f) =>
      /\ Cardinality(ErrorsAt(f, 0)) = 1
      /\ \A i \in ErrorsAt(f, 0) : Kind(i) = "Exception" /\ errors[i].field = ""
      /\ pc = "raised" => idx = Len(Order) + 1
      /\ pc = "loop" => idx > Position(f)
      /\ LoopDone =>
           \A g \in Files :
             (Position(g) > Position(f) /\ dir[g].exists # "no") => Processed(g)
      /\ pc = "returned" =>
           /\ Len(report) = 1
           /\ report[1].errors = errors
           /\ report[1].hasErrors

\* C8 witness: orgs.csv failed, users.csv after it was processed and published
\* its set, and validate_all returned with the report written.
C8_Witness ==
  /\ pc = "returned"
  /\ IOFailed("orgs.csv")
  /\ "users.csv" \in published
  /\ Len(report) = 1

\* C9: a file whose header was read and matches neither expected header has
\* exactly one error, at line 1 for field 'header'; it has no removed-record
\* entry, no clean copy and no set published in this run, and once the loop is
\* over every other file that exists has been processed.
C9_HeaderMismatchStopsFileOnly ==
  \A f \in Files :
    HeaderMismatched(f) =>
      /\ Cardinality(ErrorsOf(f)) = 1
      /\ \A i \in ErrorsOf(f) :
           /\ errors[i].line = 1
           /\ errors[i].field = "header"
           /\ Kind(i) = "Invalid header"
      /\ f \notin DOMAIN removed_records
      /\ f \notin DOMAIN out_files
      /\ f \notin published
      /\ pc = "raised" => idx = Len(Order) + 1
      /\ LoopDone =>
           \A g \in Files \ { f } : dir[g].exists # "no" => Processed(g)

\* C9 witness: users.csv holds a row under a mismatching header, and roles.csv
\* after it was processed.
C9_Witness ==
  /\ HeaderMismatched("users.csv")
  /\ dir["users.csv"].rows # << >>
  /\ Processed("roles.csv")
  /\ LoopDone

RequiredFileMissing(f) ==
  { i \in ErrorsOf(f) : Kind(i) = "Required file not found" }

\* The existence check of this run has been made.
ExistenceChecked == pc = "loop" \/ LoopDone

\* C10: once the existence check is made, each of orgs.csv, users.csv and
\* roles.csv has exactly one 'Required file not found' error if it is absent
\* and none if it is present, no optional file has any, and a file found absent
\* has no other error, no removed-record entry, no clean copy and no set
\* published in this run.
C10_OneErrorPerMissingRequiredFile ==
  ExistenceChecked =>
    /\ \A f \in ToSet(RequiredFiles) :
         /\ dir[f].exists \in { "yes", "no" }
         /\ Cardinality(RequiredFileMissing(f))
              = (IF dir[f].exists = "no" THEN 1 ELSE 0)
    /\ \A f \in Files \ ToSet(RequiredFiles) : RequiredFileMissing(f) = {}
    /\ \A f \in Files :
         dir[f].exists = "no" =>
           /\ ErrorsOf(f) = RequiredFileMissing(f)
           /\ f \notin DOMAIN removed_records
           /\ f \notin DOMAIN out_files
           /\ f \notin published

\* C10 witness: a run over a directory holding only users.csv has returned
\* with exactly two errors, for orgs.csv and roles.csv.
C10_Witness ==
  /\ pc = "returned"
  /\ \A f \in Files : dir[f].exists = (IF f = "users.csv" THEN "yes" ELSE "no")
  /\ Len(errors) = 2
  /\ RequiredFileMissing("orgs.csv") = { 1 }
  /\ RequiredFileMissing("roles.csv") = { 2 }

\* ------------------------------------------------------------ claims, C11 on

\* The header of f, as read in this run, has the field set of the V2.1 header.
IsV21(f) ==
  f \in V21Files /\ ToSet(dir[f].actual) = ToSet(sds_v21_headers(f))

\* The fields a row of f must fill, by the header the file was read with.
MustFill(f) == ToSet(IF IsV21(f) THEN sds_v21_required(f) ELSE required(f))

\* Row i of f has every field it must fill, email, phone and dates of valid
\* form, and refers only to identifiers that rows of the referenced files carry.
RowIsValid(f, i) ==
  LET r == dir[f].rows[i] IN
  /\ \A fld \in MustFill(f) : Get(r, fld) # ""
  /\ Get(r, "email") \in { "", GoodEmail }
  /\ Get(r, "phone") \in { "", GoodPhone }
  /\ \A dt \in ToSet(DateFields) : Get(r, dt) \in { "", GoodDate }
  /\ \A ft \in RefFields(f) :
       /\ dir[ft[2]].exists = "yes"
       /\ \E k \in 1..Len(dir[ft[2]].rows) :
            Get(dir[ft[2]].rows[k], "sourcedId") = r[ft[1]]

\* The directory this run went through is a valid, self-consistent dataset
\* as C11 lists it, and the run met no failure reading or writing a file.
ValidDataset ==
  /\ LoopDone
  /\ \A f \in ToSet(RequiredFiles) : dir[f].exists = "yes"
  /\ \A f \in Files :
       dir[f].exists = "yes" =>
         /\ dir[f].io = "ok"
         /\ HeaderMatches(f)
         /\ \A i \in 1..Len(dir[f].rows) : RowIsValid(f, i)
         /\ f \in UniqueFiles =>
              \A i, j \in 1..Len(dir[f].rows) :
                i < j => dir[f].rows[i]["sourcedId"] # dir[f].rows[j]["sourcedId"]

\* No row of the directory has more columns than its header.
NoSurplusColumns ==
  \A f \in Files : \A i \in 1..Len(dir[f].rows) : NoneKey \notin DOMAIN dir[f].rows[i]

\* No error, nothing removed, a report saying so and clean copies as long as
\* their input files.
CleanRun ==
  /\ errors = << >>
  /\ removed_records = EmptyMap
  /\ pc = "returned" =>
       report = << [hasErrors |-> FALSE, errors |-> << >>,
                    removedRecords |-> EmptyMap] >>
  /\ \A f \in Files :
       dir[f].exists = "yes" =>
         /\ f \in DOMAIN out_files
         /\ Len(out_files[f]) = Len(dir[f].rows)

RunAgain ==
  RunFrom([errors |->
             MissingErrors({ f \in ToSet(RequiredFiles) : dir[f].exists = "yes" }, 1),
           removed_records |-> EmptyMap,
           sourcedid_cache |-> sourcedid_cache,
           out_files |-> EmptyMap,
           out_headers |-> EmptyMap,
           published |-> {}],
          dir, 1)

\* The run st produced what this run did: errors, removed-record log, clean
\* copies.
SameOutcome(st) ==
  /\ st.errors = errors
  /\ st.removed_records = removed_records
  /\ st.out_files = out_files
  /\ st.out_headers = out_headers

\* This run went through the very directory the run before it did, met the
\* same I/O failures, and both returned.
RanTwiceOnSameInput == pc = "returned" /\ prev # << >> /\ prev[1].dir = dir

\* Not a claim's formula: the idempotence C12 states, for the same validator
\* object: a validator run twice in a row on unmodified input produces the
\* same outcome and report twice.
SameValidatorRerunIsIdempotent ==
  /\ RanTwiceOnSameInput => (SameOutcome(prev[1]) /\ report = prev[1].report)
  /\ pc = "returned" => SameOutcome(RunAgain)

\* C12 as stated: a run repeated on unmodified input, by the same validator or
\* by a fresh one, produces the same errors, removed-record log and clean
\* copies; and after a run the output directory holds clean copies only of
\* the files that published in that run.
C12_RerunIsIdempotent ==
  /\ RanTwiceOnSameInput => (SameOutcome(prev[1]) /\ report = prev[1].report)
  /\ pc = "returned" => (SameOutcome(RunAgain) /\ SameOutcome(FreshRun(dir)))
  /\ pc = "returned" => DOMAIN out_files \subseteq published

\* Not a claim's formula: in the first run of a validator that met no failure
\* writing a clean copy, the output directory is as C12 says.
OutputHoldsPublishedOnly ==
  (pc = "returned" /\ \A f \in Files : Processed(f) => ~IOFailed(f))
    => DOMAIN out_files = published

\* A run has returned leaving in the output directory a truncated copy of a
\* file that did not publish.
TruncatedCopyLeft ==
  /\ pc = "returned"
  /\ \E f \in DOMAIN out_files :
       f \notin published /\ Len(out_files[f]) < Cardinality(CleanLines(f))

\* The removed-record log of f in this run.
RemovedOf(f) ==
  IF f \in DOMAIN removed_records THEN removed_records[f] ELSE << >>

\* C13: the clean copy of a file other than roles.csv and enrollments.csv
\* never holds two rows with the same identifier; in roles.csv and
\* enrollments.csv no row ever gets a DuplicateSourcedId error, only rows with
\* an error of their own are removed, and every row without one is in the
\* clean copy when it is published, however often its identifier occurs.
C13_UniqueExceptRolesAndEnrollments ==
  /\ \A f \in DOMAIN out_files \ { "roles.csv", "enrollments.csv" } :
       \A k, l \in 1..Len(out_files[f]) :
         k < l => IdentityKey(out_files[f][k]) # IdentityKey(out_files[f][l])
  /\ \A f \in { "roles.csv", "enrollments.csv" } :
       /\ \A i \in ErrorsOf(f) : Kind(i) # "Duplicate sourcedId"
       /\ RowsValidated(f) => Len(RemovedOf(f)) = Cardinality(FaultyLines(f))
       /\ f \in published => Len(out_files[f]) = Cardinality(CleanLines(f))

\* C13 witness: enrollments.csv published a clean copy holding two rows with
\* the same identifier.
C13_Witness ==
  /\ "enrollments.csv" \in published
  /\ Len(out_files["enrollments.csv"]) = 2
  /\ IdentityKey(out_files["enrollments.csv"][1])
       = IdentityKey(out_files["enrollments.csv"][2])
  /\ IdentityKey(out_files["enrollments.csv"][1]) \in Ids

\* The kinds of error a single row can raise.
RecordKinds ==
  { "Required field missing", "Invalid email", "Invalid phone", "Invalid date",
    "Invalid boolean", "Duplicate sourcedId", "Missing ref" }

\* The rows of f at the lines of set lines, in the order of the file.
RECURSIVE RowsAt(_, _, _)
RowsAt(rows, lines, i) ==
  IF i > Len(rows) THEN << >>
  ELSE (IF i \in lines THEN << rows[i] >> ELSE << >>) \o RowsAt(rows, lines, i + 1)

\* s is the beginning of t.
IsPrefix(s, t) == Len(s) <= Len(t) /\ \A k \in 1..Len(s) : s[k] = t[k]

\* C14: for a file whose header matched and whose rows were read, every data
\* row is either rejected or accepted: the removed-record log of the file is
\* the rows with at least one record-level error at their line, in input
\* order; the rows with no error are the clean set, in input order, which is
\* the clean copy when it is published and begins it when the writing
\* failed; and every row after a rejected one is in one of the two as well.
C14_EachRowCleanOrRemoved ==
  \A f \in Files :
    RowsValidated(f) =>
      /\ \A i \in ErrorsOf(f) :
           errors[i].line >= 2 =>
             /\ errors[i].line <= Len(dir[f].rows) + 1
             /\ Kind(i) \in RecordKinds
      /\ RemovedOf(f) = RowsAt(dir[f].rows, FaultyLines(f), 1)
      /\ f \in published => out_files[f] = RowsAt(dir[f].rows, CleanLines(f), 1)
      /\ f \in DOMAIN out_files =>
           IsPrefix(out_files[f], RowsAt(dir[f].rows, CleanLines(f), 1))
      /\ Len(RemovedOf(f)) + Cardinality(CleanLines(f)) = Len(dir[f].rows)

\* C14 witness: a published file whose first row was rejected and whose
\* second row, after it, was accepted.
C14_Witness ==
  \E f \in published :
    /\ Len(dir[f].rows) = 2
    /\ RemovedOf(f) = << dir[f].rows[1] >>
    /\ out_files[f] = << dir[f].rows[2] >>

\* The defects of row i of f, each as the kind and field of the error it
\* calls for: a field to fill left empty, an email, phone or date of invalid
\* form, a reference to an identifier that is not in the accepted set held
\* for the referenced file.
Defects(f, i) ==
  LET r == dir[f].rows[i] IN
  { << "Required field missing", fld >> : fld \in { x \in MustFill(f) : Get(r, x) = "" } }
  \cup { << "Invalid email", "email" >> : x \in { Get(r, "email") } \ { "", GoodEmail } }
  \cup { << "Invalid phone", "phone" >> : x \in { Get(r, "phone") } \ { "", GoodPhone } }
  \cup { << "Invalid date", dt >> :
           dt \in { x \in ToSet(DateFields) : Get(r, x) \notin { "", GoodDate } } }
  \cup { << "Missing ref", ft[1] >> :
           ft \in { x \in RefFields(f) : /\ x[2] \in DOMAIN sourcedid_cache
                                         /\ r[x[1]] \notin sourcedid_cache[x[2]] } }

IsDuplicateLine(f, i) ==
  \E e \in ErrorsAt(f, i + 1) : Kind(e) = "Duplicate sourcedId"

\* The kinds of defect other than a missing required field and an unresolved
\* reference.
FormatKinds == { "Invalid email", "Invalid phone", "Invalid date", "Invalid boolean" }

\* C15: a row that is not a duplicate has exactly one error for each of its
\* defects, whatever their kinds: required fields, formats and references are
\* all checked, none skipped because another check failed.
C15_ChecksDoNotShortCircuit ==
  \A f \in Files :
    RowsValidated(f) =>
      \A i \in 1..Len(dir[f].rows) :
        ~IsDuplicateLine(f, i) =>
          /\ { << Kind(e), errors[e].field >> : e \in ErrorsAt(f, i + 1) }
               = Defects(f, i)
          /\ Cardinality(ErrorsAt(f, i + 1)) = Cardinality(Defects(f, i))

\* C15 witness: a roles.csv row with a required field missing, a date of
\* invalid form and an unresolved reference has an error for each.
C15_Witness ==
  /\ RowsValidated("roles.csv")
  /\ \E e1, e2, e3 \in ErrorsAt("roles.csv", 2) :
       /\ Kind(e1) = "Required field missing"
       /\ Kind(e2) = "Invalid date"
       /\ Kind(e3) = "Missing ref"

\* C16: when validate_all has returned, the report it wrote has hasErrors
\* true exactly when the error list of the run is not empty, its errors are
\* the returned error list, and the exit status of the command line is 0
\* exactly when no error was recorded and 1 otherwise.
C16_FlagAndExitCodeFollowErrors ==
  pc = "returned" =>
    /\ Len(report) = 1
    /\ report[1].hasErrors = (Len(errors) > 0)
    /\ report[1].errors = errors
    /\ report[1].removedRecords = removed_records
    /\ main(errors) = (IF Len(errors) = 0 THEN 0 ELSE 1)

\* C16 witness: a run has returned with an error although no row was
\* removed; its report says hasErrors and the exit status is 1.
C16_Witness ==
  /\ pc = "returned"
  /\ Len(errors) > 0
  /\ removed_records = EmptyMap
  /\ report[1].hasErrors
  /\ main(errors) = 1

\* The file and field pairs C17 lists as cross-checked.
CheckedRefs ==
  { << "roles.csv", "userSourcedId" >>, << "roles.csv", "orgSourcedId" >>,
    << "enrollments.csv", "userSourcedId" >>,
    << "enrollments.csv", "classSourcedId" >> }

\* C17: every 'Missing ref' error is for a roles.csv row and its
\* userSourcedId or orgSourcedId, or for an enrollments.csv row and its
\* userSourcedId or classSourcedId, and names the value of that field; a row
\* of any other file is rejected only for a required field, a format or a
\* duplicate, never for an identifier it refers to.
C17_OnlyRolesAndEnrollmentsCrossChecked ==
  /\ \A e \in 1..Len(errors) :
       Kind(e) = "Missing ref" =>
         /\ << errors[e].file, errors[e].field >> \in CheckedRefs
         /\ errors[e].line \in 2..(Len(dir[errors[e].file].rows) + 1)
         /\ errors[e].message[2]
              = dir[errors[e].file].rows[errors[e].line - 1][errors[e].field]
  /\ \A f \in Files \ { "roles.csv", "enrollments.csv" } :
       RowsValidated(f) =>
         \A i \in 1..Len(dir[f].rows) :
           LET r == dir[f].rows[i] IN
           (/\ \A fld \in ToSet(required(f)) : r[fld] # ""
            /\ Get(r, "email") \in { "", GoodEmail }
            /\ Get(r, "phone") \in { "", GoodPhone }
            /\ \A dt \in ToSet(DateFields) : Get(r, dt) \in { "", GoodDate }
            /\ \A k \in 1..(i - 1) : dir[f].rows[k]["sourcedId"] # r["sourcedId"])
             => /\ ErrorsAt(f, i + 1) = {}
                /\ f \in published => InCleanCopy(f, r)

\* C17 witness: orgs.csv published a set without the identifier a
\* classes.csv row names as its orgSourcedId, and the row is in the clean copy
\* of classes.csv.
C17_Witness ==
  /\ { "orgs.csv", "classes.csv" } \subseteq published
  /\ \E k \in 1..Len(out_files["classes.csv"]) :
       out_files["classes.csv"][k]["orgSourcedId"] \notin sourcedid_cache["orgs.csv"]

\* The place of a kind of record-level error among the errors of one row.
KindRank(k) ==
  IF k = "Missing ref" THEN 3 ELSE IF k \in FormatKinds THEN 2 ELSE 1

\* C18: in the error list, the 'Required file not found' errors come first,
\* in the order orgs, users, roles; the other errors come file by file in the
\* processing order; within a file the errors of the rows come by
\* non-decreasing line, an error of the k-th data row having line k+1 and
\* being one the row calls for, a header error having line 1; and within a
\* row required-field errors come before format errors, and these before
\* 'Missing ref' errors.
C18_ErrorsInDiscoveryOrder ==
  LET claimed == << "orgs.csv", "users.csv", "roles.csv", "classes.csv",
                    "enrollments.csv", "academicSessions.csv", "courses.csv" >>
      Pos(f) == CHOOSE k \in 1..Len(claimed) : claimed[k] = f
      Missing(e) == Kind(e) = "Required file not found"
  IN
  /\ \A i, j \in 1..Len(errors) :
       i < j =>
         /\ Missing(j) =>
              /\ Missing(i)
              /\ Pos(errors[i].file) < Pos(errors[j].file)
              /\ Pos(errors[j].file) <= 3
         /\ (~Missing(i) /\ ~Missing(j)) =>
              Pos(errors[i].file) <= Pos(errors[j].file)
         /\ (/\ errors[i].file = errors[j].file
             /\ errors[i].line >= 2
             /\ errors[j].line >= 2) =>
              /\ errors[i].line <= errors[j].line
              /\ errors[i].line = errors[j].line =>
                   KindRank(Kind(i)) <= KindRank(Kind(j))
  /\ \A e \in 1..Len(errors) :
       /\ Kind(e) = "Invalid header" <=> errors[e].line = 1
       /\ errors[e].line >= 2 =>
            LET f == errors[e].file
                k == errors[e].line - 1
            IN /\ k \in 1..Len(dir[f].rows)
               /\ \/ << Kind(e), errors[e].field >> \in Defects(f, k)
                  \/ /\ Kind(e) = "Duplicate sourcedId"
                     /\ errors[e].message[2] = dir[f].rows[k]["sourcedId"]

\* C18 witness: the error list begins with the error for the missing
\* orgs.csv, goes on with an error of a users.csv row and ends with the three
\* errors of a roles.csv row: required field, date, reference.
C18_Witness ==
  /\ Len(errors) = 5
  /\ Kind(1) = "Required file not found" /\ errors[1].file = "orgs.csv"
  /\ errors[2].file = "users.csv" /\ errors[2].line = 2
  /\ \A e \in 3..5 : errors[e].file = "roles.csv" /\ errors[e].line = 2
  /\ Kind(3) = "Required field missing"
  /\ Kind(4) = "Invalid date"
  /\ Kind(5) = "Missing ref"

\* The fields of the 'Required field missing' errors at row i of f.
MissingFieldsAt(f, i) ==
  { errors[e].field :
      e \in { x \in ErrorsAt(f, i + 1) : Kind(x) = "Required field missing" } }

\* C19: the header a file was read with decides its variant once for the
\* whole file. For roles.csv and enrollments.csv read with the field set of
\* the alternate, sourcedId-bearing header, every row must fill sourcedId
\* besides the canonical required fields and the clean copy is written with
\* the alternate header; read with the canonical field set, and for every
\* other file, every row must fill the canonical required fields only and
\* the clean copy is written with the canonical header.
C19_OneVariantPerFile ==
  \A f \in Files :
    RowsValidated(f) =>
      LET alt == /\ f \in { "roles.csv", "enrollments.csv" }
                 /\ ToSet(dir[f].actual) = ToSet(sds_v21_headers(f))
          must == ToSet(required(f)) \cup (IF alt THEN { "sourcedId" } ELSE {})
      IN /\ \A i \in 1..Len(dir[f].rows) :
              ~IsDuplicateLine(f, i) =>
                MissingFieldsAt(f, i)
                  = { fld \in must : Get(dir[f].rows[i], fld) = "" }
         /\ f \in DOMAIN out_headers =>
              out_headers[f] = (IF alt THEN sds_v21_headers(f) ELSE headers(f))
         /\ f \in published => f \in DOMAIN out_headers

\* C19 witness: roles.csv was read with the alternate header, a row of it
\* with an empty sourcedId was rejected for that, and its clean copy was
\* published under the alternate header.
C19_Witness ==
  /\ "roles.csv" \in published
  /\ IsV21("roles.csv")
  /\ out_headers["roles.csv"] = sds_v21_headers("roles.csv")
  /\ \E i \in 1..Len(dir["roles.csv"].rows) :
       "sourcedId" \in MissingFieldsAt("roles.csv", i)

\* Row j of f has the identity key of an earlier row of f that raised no
\* error.
AcceptedBefore(f, j) ==
  \E i \in CleanLines(f) :
    i < j /\ IdentityKey(dir[f].rows[i]) = IdentityKey(dir[f].rows[j])

\* C20: in a file other than roles.csv and enrollments.csv, a row has a
\* DuplicateSourcedId error exactly when an earlier row with its identity key
\* was accepted; the error is then the only one at its line, the row is in
\* the removed-record log, and the set the file publishes holds the keys of
\* the accepted rows and nothing else.
C20_DuplicateIffEarlierAccepted ==
  \A f \in Files \ { "roles.csv", "enrollments.csv" } :
    RowsValidated(f) =>
      /\ \A j \in 1..Len(dir[f].rows) :
           /\ IsDuplicateLine(f, j) <=> AcceptedBefore(f, j)
           /\ IsDuplicateLine(f, j) =>
                /\ Cardinality(ErrorsAt(f, j + 1)) = 1
                /\ \A e \in ErrorsAt(f, j + 1) :
                     errors[e].message[2] = IdentityKey(dir[f].rows[j])
                /\ \E k \in 1..Len(RemovedOf(f)) : RemovedOf(f)[k] = dir[f].rows[j]
      /\ f \in published =>
           sourcedid_cache[f]
             = { IdentityKey(dir[f].rows[i]) : i \in CleanLines(f) }

\* C20 witness: three rows with one identity key in a published file: the
\* first rejected for a defect of its own, the second accepted although the
\* first had its key, the third rejected as the duplicate of the second.
C20_Witness ==
  \E f \in published \ { "roles.csv", "enrollments.csv" } :
    /\ Len(dir[f].rows) = 3
    /\ \A i \in 1..3 : IdentityKey(dir[f].rows[i]) = IdentityKey(dir[f].rows[1])
    /\ ErrorsAt(f, 2) # {} /\ ~IsDuplicateLine(f, 1)
    /\ ErrorsAt(f, 3) = {}
    /\ IsDuplicateLine(f, 3)
    /\ Len(out_files[f]) = 1

\* The rows of f were validated in this run and the writing of its clean copy
\* failed: the file could not be opened for writing, or an accepted row has
\* more columns than the header.
WriteFailed(f) ==
  /\ RowsValidated(f)
  /\ \/ dir[f].io = "write"
     \/ \E i \in CleanLines(f) : NoneKey \in DOMAIN dir[f].rows[i]

\* C21: a file has its accepted-identifier set stored in this run only when
\* its rows were all validated and its clean copy written whole, and the set
\* is then the set of identity keys of the rows of that clean copy; when the
\* writing of the clean copy failed, no set is stored for the file in this
\* run, the failure is recorded, and the removed-record log of the file is
\* kept and is in the report when validate_all returns.
C21_SetPublishedAfterCleanCopy ==
  \A f \in Files :
    /\ f \in published =>
         /\ RowsValidated(f)
         /\ ~WriteFailed(f)
         /\ f \in DOMAIN out_files
         /\ out_files[f] = RowsAt(dir[f].rows, CleanLines(f), 1)
         /\ f \in DOMAIN sourcedid_cache
         /\ sourcedid_cache[f]
              = { IdentityKey(out_files[f][k]) : k \in 1..Len(out_files[f]) }
    /\ WriteFailed(f) =>
         /\ f \notin published
         /\ Cardinality(ErrorsAt(f, 0)) = 1
         /\ RemovedOf(f) = RowsAt(dir[f].rows, FaultyLines(f), 1)
         /\ (pc = "returned" /\ FaultyLines(f) # {}) =>
              /\ f \in DOMAIN report[1].removedRecords
              /\ report[1].removedRecords[f] = RemovedOf(f)

\* C21 witness: a run has returned over a file with a rejected row and an
\* accepted row of more columns than the header: the file published no set,
\* and the rejected row is in the removed-record log of the report.
C21_Witness ==
  /\ pc = "returned"
  /\ \E f \in Files :
       /\ WriteFailed(f)
       /\ dir[f].io = "ok"
       /\ f \notin published
       /\ f \in DOMAIN report[1].removedRecords
       /\ Len(report[1].removedRecords[f]) = 1

====
